---- MODULE Spec2Model ----
(***************************************************************************)
(* Model of the tournament engine of src/bot/app.py: the relational store  *)
(* (tournaments, players, rounds, matches), the per-admin session          *)
(* (ctx.user_data), the inline keyboards the bot has shown to each admin,  *)
(* and one action per callback handler.                                    *)
(*                                                                         *)
(* Updates are processed one at a time (ApplicationBuilder().build() keeps *)
(* concurrent_updates off), so a handler is one atomic action; the only    *)
(* handlers split in two are the confirmations, which commit twice.        *)
(*                                                                         *)
(* A keyboard stays pressable as long as its message is not edited, and    *)
(* every admin can open the menu of every tournament at any time, in a     *)
(* fresh message (/home) and without touching the store.  So a button can  *)
(* be pressed once some store state has rendered it: startShown and        *)
(* matchShown record the menu buttons rendered so far, playShown the       *)
(* play buttons that start_match has listed so far.  The menu              *)
(* of a new tournament carries round_simple and round_final, so these two  *)
(* are pressable as soon as the admin has a tournament in the session.     *)
(*                                                                         *)
(* Rows come back from the store in primary-key order; ORDER BY and        *)
(* sorted() are stable on top of it.                                       *)
(***************************************************************************)
EXTENDS Integers, Sequences, FiniteSets, TLC

\* ---------------------------------------------------------------- bounds
NumAdmins == 1          \* admins with a session
MaxTournaments == 1     \* tournaments created
MaxPlayers == 3         \* players of a tournament created by ct_players
MaxTables == 2          \* "tables" entered at creation
MaxRounds == 2          \* rounds stored
MaxMatches == 2         \* matches stored in Spec
MaxPoints == 4          \* highest score a confirmation may produce
MaxPress == 1           \* highest side score an admin dials on a scoreboard
BusyPlayers == 5        \* players of the running round of SpecBusy
MinFinalPlayers == 7    \* players of the tournaments of SpecFinal, from
MaxFinalPlayers == 9    \* ... to
MaxUpsets == 2          \* matches of the played round won by player 2
MaxSeated == 16         \* players of the tournaments of SpecSeat
KnockoutPlayers == 8    \* players of the tournament of SpecKnockout
MaxKnockout == 2        \* knockout matches started in SpecKnockout
PairPlayers == 4        \* fewest players of the running round of SpecPair
MaxPair == 2            \* matches started in SpecPair
MaxCount == 64          \* largest player count the table-count search is computed for

\* ------------------------------------------------------ program constants
MaxSets == 3
WinPoints == 2
LosePoints == 1
MinSize == 4
MaxSize == 7

VARIABLES
    tours,      \* table tournaments: <<[status, tables]>>, index = id
    players,    \* table players: <<[tid, score]>>, index = id
    rounds,     \* table rounds: <<[tid, type, status, data]>>, index = id
    matches,    \* table matches: <<[rid, table, p1, p2, status, result]>>
    tid,        \* ctx.user_data["tid"] of each admin, 0 = absent
    score_mid,  \* ctx.user_data["score_mid"], 0 = absent
    score_1,    \* ctx.user_data["score_1"], absent reads as 0
    score_2,    \* ctx.user_data["score_2"], absent reads as 0
    boards,     \* the matches whose scoreboard message the admin has
    startShown, \* a start_match button has been rendered
    playShown,  \* the matches whose play_<m> button has been rendered
    matchShown, \* the matches whose match_<m> button has been rendered
    pc,         \* a confirmation between its two commits, or idle
    reply,      \* what the last handler answered
    listed      \* the play_<m> buttons of the last handler's answer

db == <<tours, players, rounds, matches>>
session == <<tid, score_mid, score_1, score_2, boards>>
shown == <<startShown, playShown, matchShown>>
vars == <<tours, players, rounds, matches, tid, score_mid, score_1, score_2, boards,
          startShown, playShown, matchShown, pc, reply, listed>>

Admins == 1..NumAdmins

Idle == [op |-> "idle", a |-> 0, rid |-> 0]

NoResult == [winner |-> 0, loser |-> 0, score |-> <<0, 0>>]

Range(s) == {s[i] : i \in DOMAIN s}

Ids(s) == [i \in 1..Len(s) |-> i]

\* ------------------------------------------------------------ pure parts

\* select(Player).where(Player.tournament_id == t), as a list of ids
PlayersOf(t, P) == SelectSeq(Ids(P), LAMBDA p : P[p].tid = t)

RECURSIVE InsertDesc(_, _, _)
InsertDesc(s, p, P) ==
    IF s = <<>> THEN <<p>>
    ELSE IF P[Head(s)].score >= P[p].score
         THEN <<Head(s)>> \o InsertDesc(Tail(s), p, P)
         ELSE <<p>> \o s

\* stable sort of a list of player ids, descending by score
RECURSIVE SortedDesc(_, _)
SortedDesc(ids, P) ==
    IF ids = <<>> THEN <<>>
    ELSE InsertDesc(SortedDesc(SubSeq(ids, 1, Len(ids) - 1), P), ids[Len(ids)], P)

\* the scan never stops early: the last table count tried is taken
RECURSIVE ScanTables_Last(_, _)
ScanTables_Last(n, t) ==
    IF t + 2 < (n \div 4) + 3 THEN ScanTables_Last(n, t + 2) ELSE t

\* a scan that fits nowhere ends one step past the last count tried
RECURSIVE ScanTables_PastEnd(_, _)
ScanTables_PastEnd(n, t) ==
    LET size == (n + t - 1) \div t
    IN  IF MinSize <= size /\ size <= MaxSize THEN t
        ELSE IF t + 2 < (n \div 4) + 3 THEN ScanTables_PastEnd(n, t + 2)
        ELSE t + 2

\* for tcount in range(2, n // 4 + 3, 2): size = -(-n // tcount); break if 4..7
RECURSIVE ScanTables(_, _)
ScanTables(n, t) ==
    LET size == (n + t - 1) \div t
    IN  IF MinSize <= size /\ size <= MaxSize THEN t
        ELSE IF t + 2 < (n \div 4) + 3 THEN ScanTables(n, t + 2)
        ELSE t

\* the scan starts at four tables
TableCount_FromFour(n) == ScanTables(n, 4)

TableCount(n) == ScanTables(n, 2)

\* every table also takes the ranks of the tables before it
TableOf_Cumulative(ranked, t, idx) ==
    LET pos == SelectSeq(Ids(ranked), LAMBDA i : (i - 1) % t <= idx - 1)
    IN  [k \in 1..Len(pos) |-> ranked[pos[k]]]

\* the ranking is cut into blocks, one block of neighbours per table
TableOf_Blocks(ranked, t, idx) ==
    LET size == (Len(ranked) + t - 1) \div t
        pos == SelectSeq(Ids(ranked), LAMBDA i : (i - 1) \div size = idx - 1)
    IN  [k \in 1..Len(pos) |-> ranked[pos[k]]]

\* zip(players, cycle(range(tcount))): rank i goes to table i mod tcount
TableOf(ranked, t, idx) ==
    LET pos == SelectSeq(Ids(ranked), LAMBDA i : (i - 1) % t = idx - 1)
    IN  [k \in 1..Len(pos) |-> ranked[pos[k]]]

Partition(ranked) ==
    LET t == TableCount(Len(ranked))
    IN  [idx \in 1..t |-> TableOf(ranked, t, idx)]

\* only neighbours in the table's order are paired
Combinations_Neighbours(tbl) ==
    [k \in 1..(IF Len(tbl) < 2 THEN 0 ELSE Len(tbl) - 1) |-> <<tbl[k], tbl[k + 1]>>]

\* itertools.combinations(tbl, 2)
RECURSIVE Combinations(_)
Combinations(tbl) ==
    IF Len(tbl) < 2 THEN <<>>
    ELSE [k \in 1..(Len(tbl) - 1) |-> <<tbl[1], tbl[k + 1]>>] \o Combinations(Tail(tbl))

NewMatch(rid, table, a, b) ==
    [rid |-> rid, table |-> table, p1 |-> a, p2 |-> b,
     status |-> "scheduled", result |-> NoResult]

RECURSIVE RoundRobin(_, _, _)
RoundRobin(rid, tables, idx) ==
    IF idx > Len(tables) THEN <<>>
    ELSE LET c == Combinations(tables[idx])
         IN  [k \in 1..Len(c) |-> NewMatch(rid, idx, c[k][1], c[k][2])]
             \o RoundRobin(rid, tables, idx + 1)

\* first against first, and so on down the two tables
Bracket_Straight(A, B) ==
    << <<A[1], B[1]>>, <<B[2], A[2]>>, <<A[3], B[3]>>, <<B[4], A[4]>> >>

\* the four knockout pairings of round_final
Bracket(A, B) ==
    << <<A[1], B[4]>>, <<B[1], A[4]>>, <<A[2], B[3]>>, <<B[2], A[3]>> >>

\* ------------------------------------------------------------ store reads

PendingRounds(t, R) == {r \in DOMAIN R : R[r].tid = t /\ R[r].status = "pending"}

SimpleDone(t, R) ==
    {r \in DOMAIN R : R[r].tid = t /\ R[r].type = "simple" /\ R[r].status = "done"}

MatchesOf(r, M) == {m \in DOMAIN M : M[m].rid = r}

WithStatus(r, M, st) == {m \in MatchesOf(r, M) : M[m].status = st}

PlayingIds(r, M) ==
    UNION {{M[m].p1, M[m].p2} : m \in WithStatus(r, M, "playing")}

\* every scheduled match of the round is offered
Available_AllScheduled(r, M) == WithStatus(r, M, "scheduled")

\* start_match: scheduled matches none of whose players is playing
Available(r, M) ==
    {m \in WithStatus(r, M, "scheduled") :
        M[m].p1 \notin PlayingIds(r, M) /\ M[m].p2 \notin PlayingIds(r, M)}

\* ------------------------------------------------------ tournament menu

\* scalar_one_or_none() raises when two pending rounds exist
MenuRaises(t, R) == Cardinality(PendingRounds(t, R)) > 1

\* the menu of t shows the branch of a running round
MenuOfRound(t, T, R) ==
    /\ ~MenuRaises(t, R)
    /\ T[t].status # "ended"
    /\ PendingRounds(t, R) # {}

\* a button for every match of the pending round that is not done
MatchButtons_Open(t, T, R, M) ==
    IF MenuOfRound(t, T, R)
    THEN MatchesOf(CHOOSE r \in PendingRounds(t, R) : TRUE, M)
         \ WithStatus(CHOOSE r \in PendingRounds(t, R) : TRUE, M, "done")
    ELSE {}

\* match_<m> buttons: the playing matches of the pending round
MatchButtons(t, T, R, M) ==
    IF MenuOfRound(t, T, R)
    THEN WithStatus(CHOOSE r \in PendingRounds(t, R) : TRUE, M, "playing")
    ELSE {}

\* the start_match button: a table is free and a match is scheduled
StartButton(t, T, R, M) ==
    /\ MenuOfRound(t, T, R)
    /\ LET r == CHOOSE r \in PendingRounds(t, R) : TRUE
       IN  /\ Cardinality(WithStatus(r, M, "playing")) < T[t].tables
           /\ WithStatus(r, M, "scheduled") # {}

\* play_<m> buttons: what start_match lists for t
PlayButtons(t, R, M) ==
    IF Cardinality(PendingRounds(t, R)) = 1
    THEN Available(CHOOSE r \in PendingRounds(t, R) : TRUE, M)
    ELSE {}

\* the menu buttons the store contents T, R, M render, added to those rendered
\* before; the play_<m> buttons are rendered by start_match only
Offer(T, R, M) ==
    /\ matchShown' = matchShown \cup UNION {MatchButtons(t, T, R, M) : t \in DOMAIN T}
    /\ startShown' = (startShown \/ \E t \in DOMAIN T : StartButton(t, T, R, M))
    /\ playShown' = playShown

\* send_tournament_menu(update, ctx, t) on the rounds R
SendMenu(a, t, R) ==
    /\ tid' = [tid EXCEPT ![a] = t]
    /\ listed' = {}
    /\ reply' = IF MenuRaises(t, R) THEN "exception" ELSE "ok"

\* ---------------------------------------------------------------- Init

Init ==
    /\ tours = <<>>
    /\ players = <<>>
    /\ rounds = <<>>
    /\ matches = <<>>
    /\ tid = [a \in Admins |-> 0]
    /\ score_mid = [a \in Admins |-> 0]
    /\ score_1 = [a \in Admins |-> 0]
    /\ score_2 = [a \in Admins |-> 0]
    /\ boards = [a \in Admins |-> {}]
    /\ startShown = FALSE
    /\ playShown = {}
    /\ matchShown = {}
    /\ pc = Idle
    /\ reply = "ok"
    /\ listed = {}

\* ------------------------------------------------------------- handlers

\* Player(tournament_id=tour.id, name=nm) for each name; score defaults to 0
NewPlayers(t, n) == [i \in 1..n |-> [tid |-> t, score |-> 0]]

\* ct_players: the tournament and its n players are stored, the menu is shown
CtPlayers(a, n, tb) ==
    /\ pc = Idle
    /\ Len(tours) < MaxTournaments
    /\ tours' = Append(tours, [status |-> "registration", tables |-> tb])
    /\ players' = players \o NewPlayers(Len(tours) + 1, n)
    /\ UNCHANGED <<rounds, matches, score_mid, score_1, score_2, boards, shown, pc>>
    /\ SendMenu(a, Len(tours) + 1, rounds)

\* show_tournament: callback show_<t>, offered for every stored tournament
ShowTournament(a, t) ==
    /\ pc = Idle
    /\ t \in DOMAIN tours
    /\ UNCHANGED <<db, score_mid, score_1, score_2, boards, shown, pc>>
    /\ SendMenu(a, t, rounds)

\* the status of the tournament is left as it is
Activate_Keep(T, t) == T

\* sa_update(Tournament).where(Tournament.id == t).values(status="active")
Activate(T, t) == [T EXCEPT ![t].status = "active"]

\* round_simple: callback round_simple
RoundSimple(a) ==
    /\ pc = Idle
    /\ tid[a] \in DOMAIN tours
    /\ Len(rounds) < MaxRounds
    /\ LET t == tid[a]
           tables == Partition(SortedDesc(PlayersOf(t, players), players))
           rid == Len(rounds) + 1
       IN  /\ rounds' = Append(rounds, [tid |-> t, type |-> "simple",
                                        status |-> "pending", data |-> tables])
           /\ matches' = matches \o RoundRobin(rid, tables, 1)
           /\ tours' = Activate(tours, t)
           /\ UNCHANGED <<players, score_mid, score_1, score_2, boards, pc>>
           /\ SendMenu(a, t, rounds')
           /\ Offer(tours', rounds', matches')

\* the latest completed simple round of t, 0 when there is none
LatestSimpleDone(t, R) ==
    IF SimpleDone(t, R) = {} THEN 0
    ELSE CHOOSE r \in SimpleDone(t, R) : \A q \in SimpleDone(t, R) : q <= r

\* the players of t that are in the given table, sorted descending by score
TableSorted(t, ids, P) ==
    SortedDesc(SelectSeq(PlayersOf(t, P), LAMBDA p : p \in Range(ids)), P)

\* the tournament is marked active before the completed round is looked for
RejectFinal_Activated(t) ==
    /\ listed' = {}
    /\ reply' = "need_simple"
    /\ tours' = Activate(tours, t)
    /\ UNCHANGED <<players, rounds, matches, session, shown, pc>>

\* if not simple: "Сначала завершите простой раунд." and return
RejectFinal(t) ==
    /\ listed' = {}
    /\ reply' = "need_simple"
    /\ UNCHANGED <<db, session, shown, pc>>

\* round_final: callback round_final
RoundFinal(a) ==
    /\ pc = Idle
    /\ tid[a] \in DOMAIN tours
    /\ LET t == tid[a]
           simple == LatestSimpleDone(t, rounds)
       IN  IF simple = 0
           THEN RejectFinal(t)
           ELSE LET A == TableSorted(t, rounds[simple].data[1], players)
                    B == TableSorted(t, rounds[simple].data[2], players)
                    rid == Len(rounds) + 1
                IN  IF Len(A) < 4 \/ Len(B) < 4
                    THEN \* IndexError: nothing is committed, nothing is answered
                         /\ listed' = {}
                         /\ reply' = "exception"
                         /\ UNCHANGED <<db, session, shown, pc>>
                    ELSE LET bracket == Bracket(A, B)
                         IN  /\ Len(rounds) < MaxRounds
                             /\ rounds' = Append(rounds, [tid |-> t, type |-> "final",
                                                 status |-> "pending", data |-> bracket])
                             /\ matches' = matches \o
                                    [k \in 1..4 |-> NewMatch(rid, k, bracket[k][1], bracket[k][2])]
                             /\ tours' = Activate(tours, t)
                             /\ UNCHANGED <<players, score_mid, score_1, score_2, boards, pc>>
                             /\ SendMenu(a, t, rounds')
                             /\ Offer(tours', rounds', matches')

\* start_match (the second definition, the one in effect): callback start_match
StartMatch(a) ==
    /\ pc = Idle
    /\ startShown
    /\ tid[a] \in DOMAIN tours
    /\ LET t == tid[a]
           pend == PendingRounds(t, rounds)
       IN  IF Cardinality(pend) > 1
           THEN /\ listed' = {}
                /\ reply' = "exception"
                /\ UNCHANGED <<db, session, shown, pc>>
           ELSE IF pend = {}
           THEN /\ UNCHANGED <<db, score_mid, score_1, score_2, boards, shown, pc>>
                /\ SendMenu(a, t, rounds)
           ELSE IF Available(CHOOSE r \in pend : TRUE, matches) = {}
           THEN /\ listed' = {}
                /\ reply' = "no_pairs"
                /\ UNCHANGED <<db, session, shown, pc>>
           ELSE /\ listed' = PlayButtons(t, rounds, matches)
                /\ reply' = "ok"
                /\ playShown' = playShown \cup listed'
                /\ UNCHANGED <<db, session, startShown, matchShown, pc>>

\* m.status = "playing"
SetPlaying(M, m) == [M EXCEPT ![m].status = "playing"]

\* play_match: callback play_<m>
PlayMatch(a, m) ==
    /\ pc = Idle
    /\ m \in playShown
    /\ tid[a] \in DOMAIN tours
    /\ matches' = SetPlaying(matches, m)
    /\ UNCHANGED <<tours, players, rounds, score_mid, score_1, score_2, boards, pc>>
    /\ SendMenu(a, tid[a], rounds)
    /\ Offer(tours, rounds, matches')

\* match_cb: callback match_<m>, opens the scoreboard of m
MatchCb(a, m) ==
    /\ pc = Idle
    /\ m \in matchShown
    /\ tid[a] \in DOMAIN tours
    /\ score_mid' = [score_mid EXCEPT ![a] = m]
    /\ score_1' = [score_1 EXCEPT ![a] = 0]
    /\ score_2' = [score_2 EXCEPT ![a] = 0]
    /\ boards' = [boards EXCEPT ![a] = @ \cup {m}]
    /\ listed' = {}
    /\ reply' = "ok"
    /\ UNCHANGED <<db, tid, shown, pc>>

Adjusted(act, val) ==
    IF act = "inc" /\ val < MaxSets THEN val + 1
    ELSE IF act = "dec" /\ val > 0 THEN val - 1
    ELSE val

\* adjust_score: callbacks inc_<m>_<idx> and dec_<m>_<idx> of a scoreboard
AdjustScore(a, act, idx) ==
    /\ pc = Idle
    /\ boards[a] # {}
    /\ Adjusted(act, IF idx = 1 THEN score_1[a] ELSE score_2[a]) <= MaxPress
    /\ score_1' = IF idx = 1 THEN [score_1 EXCEPT ![a] = Adjusted(act, @)] ELSE score_1
    /\ score_2' = IF idx = 2 THEN [score_2 EXCEPT ![a] = Adjusted(act, @)] ELSE score_2
    /\ listed' = {}
    /\ reply' = "ok"
    /\ UNCHANGED <<db, tid, score_mid, boards, shown, pc>>

\* points are awarded whatever the type of the round
Award_AnyRound(P, R, M, m, w, l) ==
    [P EXCEPT ![w].score = @ + WinPoints, ![l].score = @ + LosePoints]

\* the loser of a match of a simple round pays a point
Award_Penalty(P, R, M, m, w, l) ==
    IF R[M[m].rid].type = "simple"
    THEN [P EXCEPT ![w].score = @ + WinPoints, ![l].score = @ - LosePoints]
    ELSE P

\* the points of the match replace the scores instead of adding to them
Award_Overwrite(P, R, M, m, w, l) ==
    IF R[M[m].rid].type = "simple"
    THEN [P EXCEPT ![w].score = WinPoints, ![l].score = LosePoints]
    ELSE P

\* points are awarded in simple rounds only
Award(P, R, M, m, w, l) ==
    IF R[M[m].rid].type = "simple"
    THEN [P EXCEPT ![w].score = @ + WinPoints, ![l].score = @ + LosePoints]
    ELSE P

\* winner and loser change places in the result
SetDone_Swapped(M, m, w, l, sc) ==
    [M EXCEPT ![m].result = [winner |-> l, loser |-> w, score |-> sc],
              ![m].status = "done"]

\* m.result = {...}; m.status = "done"
SetDone(M, m, w, l, sc) ==
    [M EXCEPT ![m].result = [winner |-> w, loser |-> l, score |-> sc],
              ![m].status = "done"]

\* the first commit of a confirmation: result, status done and the points;
\* op tells the completion check which handler it continues
ResolveBy(op, a, m, w, l, sc) ==
    /\ \/ rounds[matches[m].rid].type # "simple"
       \/ players[w].score + WinPoints <= MaxPoints
    /\ matches' = SetDone(matches, m, w, l, sc)
    /\ players' = Award(players, rounds, matches, m, w, l)
    /\ pc' = [op |-> op, a |-> a, rid |-> matches[m].rid]
    /\ listed' = {}
    /\ reply' = "ok"
    /\ UNCHANGED <<tours, rounds, tid, boards>>
    /\ Offer(tours, rounds, matches')

\* the first commit of confirm_score
Resolve(a, m, w, l, sc) == ResolveBy("check", a, m, w, l, sc)

\* confirm_score without the tie test: equal scores count as a win of side 2
ConfirmScore_NoTieTest(a) ==
    /\ pc = Idle
    /\ boards[a] # {}
    /\ score_mid' = [score_mid EXCEPT ![a] = 0]
    /\ score_1' = [score_1 EXCEPT ![a] = 0]
    /\ score_2' = [score_2 EXCEPT ![a] = 0]
    /\ IF score_mid[a] = 0
       THEN /\ listed' = {}
            /\ reply' = "ok"
            /\ UNCHANGED <<db, tid, boards, shown, pc>>
       ELSE Resolve(a, score_mid[a],
                    IF score_1[a] > score_2[a] THEN matches[score_mid[a]].p1
                                               ELSE matches[score_mid[a]].p2,
                    IF score_1[a] > score_2[a] THEN matches[score_mid[a]].p2
                                               ELSE matches[score_mid[a]].p1,
                    <<score_1[a], score_2[a]>>)

\* confirm_score: callback confirm_<m>; the match is the session's score_mid
ConfirmScore(a) ==
    /\ pc = Idle
    /\ boards[a] # {}
    /\ score_mid' = [score_mid EXCEPT ![a] = 0]
    /\ score_1' = [score_1 EXCEPT ![a] = 0]
    /\ score_2' = [score_2 EXCEPT ![a] = 0]
    /\ LET mid == score_mid[a]
           s1 == score_1[a]
           s2 == score_2[a]
       IN  IF mid = 0
           THEN /\ listed' = {}
                /\ reply' = "ok"
                /\ UNCHANGED <<db, tid, boards, shown, pc>>
           ELSE IF s1 = s2
           THEN /\ listed' = {}
                /\ reply' = "tie"
                /\ UNCHANGED <<db, tid, boards, shown, pc>>
           ELSE Resolve(a, mid,
                        IF s1 > s2 THEN matches[mid].p1 ELSE matches[mid].p2,
                        IF s1 > s2 THEN matches[mid].p2 ELSE matches[mid].p1,
                        <<s1, s2>>)

\* who == "1" compares the int parsed from the callback with a string
IsSide1(who) == FALSE

\* the score texts a confirm_<m>_<who>_<score> callback is tried with
ResScores == {<<1, 0>>}

\* confirm_res: callback confirm_<m>_<who>_<score>
ConfirmRes(a, m, who, sc) ==
    /\ pc = Idle
    /\ m \in DOMAIN matches
    /\ tid[a] \in DOMAIN tours
    /\ IF matches[m].status # "playing"
       THEN /\ UNCHANGED <<db, score_mid, score_1, score_2, boards, shown, pc>>
            /\ SendMenu(a, tid[a], rounds)
       ELSE /\ ResolveBy("check_res", a, m,
                         IF IsSide1(who) THEN matches[m].p1 ELSE matches[m].p2,
                         IF IsSide1(who) THEN matches[m].p2 ELSE matches[m].p1,
                         sc)
            /\ UNCHANGED <<score_mid, score_1, score_2>>

\* the round is done when all its matches are
Completed(R, M, r) ==
    IF \A m \in MatchesOf(r, M) : M[m].status = "done"
    THEN [R EXCEPT ![r].status = "done"]
    ELSE R

\* confirm_score sends the summary of a simple round whenever it finds all
\* the matches of the round done; confirm_res never does
SendsSummary(op, R, M, r) ==
    /\ op = "check"
    /\ R[r].type = "simple"
    /\ \A m \in MatchesOf(r, M) : M[m].status = "done"

\* the second commit of a confirmation, the summary, then the menu
CompletionCheck ==
    /\ pc.op \in {"check", "check_res"}
    /\ rounds' = Completed(rounds, matches, pc.rid)
    /\ pc' = Idle
    /\ UNCHANGED <<tours, players, matches, tid, score_mid, score_1, score_2, boards>>
    /\ listed' = {}
    /\ reply' = IF SendsSummary(pc.op, rounds, matches, pc.rid) THEN "summary"
                ELSE IF MenuRaises(tid[pc.a], rounds') THEN "exception"
                ELSE "ok"
    /\ Offer(tours, rounds', matches)

\* ending the tournament also clears the scores of its players
EndTournament_Reset(a) ==
    /\ pc = Idle
    /\ tid[a] \in DOMAIN tours
    /\ tours' = [tours EXCEPT ![tid[a]].status = "ended"]
    /\ players' = [p \in DOMAIN players |->
                      IF players[p].tid = tid[a] THEN [players[p] EXCEPT !.score = 0]
                      ELSE players[p]]
    /\ listed' = {}
    /\ reply' = "ok"
    /\ UNCHANGED <<rounds, matches, session, shown, pc>>

\* end_tournament: callback end_tournament
EndTournament(a) ==
    /\ pc = Idle
    /\ tid[a] \in DOMAIN tours
    /\ tours' = [tours EXCEPT ![tid[a]].status = "ended"]
    /\ listed' = {}
    /\ reply' = "ok"
    /\ UNCHANGED <<players, rounds, matches, session, shown, pc>>

\* ---------------------------------------------------------- specification

\* the matches a round_simple of admin a would add still fit the store bound
FitsMatches(a) ==
    tid[a] \in DOMAIN tours
    => Len(matches)
       + Len(RoundRobin(0, Partition(SortedDesc(PlayersOf(tid[a], players), players)), 1))
       <= MaxMatches

Next ==
    \/ \E a \in Admins, n \in 0..MaxPlayers, tb \in 1..MaxTables : CtPlayers(a, n, tb)
    \/ \E a \in Admins, t \in 1..MaxTournaments : ShowTournament(a, t)
    \/ \E a \in Admins : FitsMatches(a) /\ RoundSimple(a)
    \/ \E a \in Admins : RoundFinal(a)
    \/ \E a \in Admins : StartMatch(a)
    \/ \E a \in Admins, m \in DOMAIN matches : PlayMatch(a, m)
    \/ \E a \in Admins, m \in DOMAIN matches : MatchCb(a, m)
    \/ \E a \in Admins, act \in {"inc", "dec"}, idx \in {1, 2} : AdjustScore(a, act, idx)
    \/ \E a \in Admins : ConfirmScore(a)
    \/ \E a \in Admins, m \in DOMAIN matches, who \in {1, 2}, sc \in ResScores :
           ConfirmRes(a, m, who, sc)
    \/ CompletionCheck
    \/ \E a \in Admins : EndTournament(a)

Spec == Init /\ [][Next]_vars

\* ------------------------------------------- a running five-player round

\* the state right after ct_players and round_simple for BusyPlayers players
InitBusy ==
    /\ \E tb \in 1..MaxTables : tours = <<[status |-> "active", tables |-> tb]>>
    /\ players = NewPlayers(1, BusyPlayers)
    /\ rounds = <<[tid |-> 1, type |-> "simple", status |-> "pending",
                   data |-> Partition(SortedDesc(PlayersOf(1, players), players))]>>
    /\ matches = RoundRobin(1, rounds[1].data, 1)
    /\ tid = [a \in Admins |-> 1]
    /\ score_mid = [a \in Admins |-> 0]
    /\ score_1 = [a \in Admins |-> 0]
    /\ score_2 = [a \in Admins |-> 0]
    /\ boards = [a \in Admins |-> {}]
    /\ startShown = TRUE
    /\ playShown = {}
    /\ matchShown = {}
    /\ pc = Idle
    /\ reply = "ok"
    /\ listed = {}

\* starting matches and opening scoreboards, no confirmation
NextBusy ==
    \/ \E a \in Admins, t \in 1..MaxTournaments : ShowTournament(a, t)
    \/ \E a \in Admins : StartMatch(a)
    \/ \E a \in Admins, m \in DOMAIN matches : PlayMatch(a, m)
    \/ \E a \in Admins, m \in DOMAIN matches : MatchCb(a, m)

SpecBusy == InitBusy /\ [][NextBusy]_vars

\* ------------------------------------------------ after a played round

\* the matches M, each confirmed once: player 2 wins the matches in ups
Played(M, ups) ==
    [m \in DOMAIN M |->
        IF m \in ups
        THEN SetDone(M, m, M[m].p2, M[m].p1, <<0, 1>>)[m]
        ELSE SetDone(M, m, M[m].p1, M[m].p2, <<1, 0>>)[m]]

\* the scores after the matches M of a simple round: 2 per win, 1 per loss
Scored(P, M) ==
    [p \in DOMAIN P |->
        [P[p] EXCEPT !.score =
            WinPoints * Cardinality({m \in DOMAIN M : M[m].result.winner = p})
            + LosePoints * Cardinality({m \in DOMAIN M : M[m].result.loser = p})]]

\* a tournament whose simple round has just been completed, or one still in
\* registration
InitFinal ==
    /\ \E tb \in 1..MaxTables, n \in MinFinalPlayers..MaxFinalPlayers, reg \in BOOLEAN :
         LET P0 == NewPlayers(1, n)
             tables == Partition(SortedDesc(PlayersOf(1, P0), P0))
             M0 == RoundRobin(1, tables, 1)
         IN  IF reg
             THEN /\ tours = <<[status |-> "registration", tables |-> tb]>>
                  /\ players = P0
                  /\ rounds = <<>>
                  /\ matches = <<>>
                  /\ startShown = FALSE
             ELSE \E ups \in SUBSET DOMAIN M0 :
                  /\ Cardinality(ups) <= MaxUpsets
                  /\ tours = <<[status |-> "active", tables |-> tb]>>
                  /\ matches = Played(M0, ups)
                  /\ players = Scored(P0, matches)
                  /\ rounds = <<[tid |-> 1, type |-> "simple", status |-> "done",
                                 data |-> tables]>>
                  /\ startShown = TRUE
    /\ tid = [a \in Admins |-> 1]
    /\ score_mid = [a \in Admins |-> 0]
    /\ score_1 = [a \in Admins |-> 0]
    /\ score_2 = [a \in Admins |-> 0]
    /\ boards = [a \in Admins |-> DOMAIN matches]
    /\ playShown = DOMAIN matches
    /\ matchShown = DOMAIN matches
    /\ pc = Idle
    /\ reply = "ok"
    /\ listed = {}

\* seeding the knockout round
NextFinal ==
    \/ \E a \in Admins, t \in 1..MaxTournaments : ShowTournament(a, t)
    \/ \E a \in Admins : RoundFinal(a)
    \/ \E a \in Admins : StartMatch(a)
    \/ \E a \in Admins : EndTournament(a)

SpecFinal == InitFinal /\ [][NextFinal]_vars

\* ------------------------------------------- seating a large tournament

\* the matches that have been started: playing or done
Started(M) == {m \in DOMAIN M : M[m].status # "scheduled"}

\* one tournament of up to MaxSeated players and its first simple round
NextSeat ==
    \/ \E a \in Admins, n \in 0..MaxSeated, tb \in 1..MaxTables : CtPlayers(a, n, tb)
    \/ \E a \in Admins, t \in 1..MaxTournaments : ShowTournament(a, t)
    \/ \E a \in Admins : rounds = <<>> /\ RoundSimple(a)
    \/ \E a \in Admins : StartMatch(a)
    \/ \E a \in Admins : EndTournament(a)

SpecSeat == Init /\ [][NextSeat]_vars

\* ------------------------------------------------ playing the knockout

\* the matches of the rounds of type final
FinalMatches(R, M) == {m \in DOMAIN M : R[M[m].rid].type = "final"}

\* the state right after round_final: the simple round of KnockoutPlayers
\* players has been played (player 1 won every match), the final round and
\* its four matches are stored, the start list has been shown
InitKnockout ==
    /\ \E tb \in 1..MaxTables :
         LET P0 == NewPlayers(1, KnockoutPlayers)
             tables == Partition(SortedDesc(PlayersOf(1, P0), P0))
             M1 == Played(RoundRobin(1, tables, 1), {})
             P1 == Scored(P0, M1)
             bracket == Bracket(TableSorted(1, tables[1], P1), TableSorted(1, tables[2], P1))
         IN  /\ tours = <<[status |-> "active", tables |-> tb]>>
             /\ players = P1
             /\ rounds = <<[tid |-> 1, type |-> "simple", status |-> "done", data |-> tables],
                           [tid |-> 1, type |-> "final", status |-> "pending", data |-> bracket]>>
             /\ matches = M1 \o [k \in 1..4 |-> NewMatch(2, k, bracket[k][1], bracket[k][2])]
             /\ matchShown = DOMAIN M1
             /\ boards = [a \in Admins |-> DOMAIN M1]
    /\ tid = [a \in Admins |-> 1]
    /\ score_mid = [a \in Admins |-> 0]
    /\ score_1 = [a \in Admins |-> 0]
    /\ score_2 = [a \in Admins |-> 0]
    /\ startShown = TRUE
    /\ playShown = DOMAIN matches
    /\ pc = Idle
    /\ reply = "ok"
    /\ listed = {}

\* the knockout matches are started and confirmed, MaxKnockout of them
NextKnockout ==
    \/ \E a \in Admins, t \in 1..MaxTournaments : ShowTournament(a, t)
    \/ \E a \in Admins : StartMatch(a)
    \/ \E a \in Admins, m \in FinalMatches(rounds, matches) :
           /\ Cardinality((Started(matches) \cap FinalMatches(rounds, matches)) \cup {m})
                 <= MaxKnockout
           /\ PlayMatch(a, m)
    \/ \E a \in Admins, m \in FinalMatches(rounds, matches) : MatchCb(a, m)
    \/ \E a \in Admins, act \in {"inc", "dec"}, idx \in {1, 2} : AdjustScore(a, act, idx)
    \/ \E a \in Admins : ConfirmScore(a)
    \/ \E a \in Admins, m \in FinalMatches(rounds, matches), who \in {1, 2}, sc \in ResScores :
           ConfirmRes(a, m, who, sc)
    \/ CompletionCheck

SpecKnockout == InitKnockout /\ [][NextKnockout]_vars

\* ------------------------------------------- the next round of a tournament

\* rounds are created for a tournament in registration or with a played
\* simple round, and the tournament is ended
NextRounds ==
    \/ \E a \in Admins, t \in 1..MaxTournaments : ShowTournament(a, t)
    \/ \E a \in Admins : RoundSimple(a)
    \/ \E a \in Admins : RoundFinal(a)
    \/ \E a \in Admins : StartMatch(a)
    \/ \E a \in Admins : EndTournament(a)

SpecRounds == InitFinal /\ [][NextRounds]_vars

\* ------------------------------------------- two matches of one round

\* the state right after ct_players and round_simple, as InitBusy, for
\* PairPlayers to BusyPlayers players: with four players the round has two
\* matches, with five two of its matches share a player
InitPair ==
    /\ \E tb \in 1..MaxTables : tours = <<[status |-> "active", tables |-> tb]>>
    /\ \E n \in PairPlayers..BusyPlayers : players = NewPlayers(1, n)
    /\ rounds = <<[tid |-> 1, type |-> "simple", status |-> "pending",
                   data |-> Partition(SortedDesc(PlayersOf(1, players), players))]>>
    /\ matches = RoundRobin(1, rounds[1].data, 1)
    /\ tid = [a \in Admins |-> 1]
    /\ score_mid = [a \in Admins |-> 0]
    /\ score_1 = [a \in Admins |-> 0]
    /\ score_2 = [a \in Admins |-> 0]
    /\ boards = [a \in Admins |-> {}]
    /\ startShown = TRUE
    /\ playShown = {}
    /\ matchShown = {}
    /\ pc = Idle
    /\ reply = "ok"
    /\ listed = {}

\* MaxPair matches of the round are started and confirmed
NextPair ==
    \/ \E a \in Admins, t \in 1..MaxTournaments : ShowTournament(a, t)
    \/ \E a \in Admins : StartMatch(a)
    \/ \E a \in Admins, m \in DOMAIN matches :
           Cardinality(Started(matches) \cup {m}) <= MaxPair /\ PlayMatch(a, m)
    \/ \E a \in Admins, m \in DOMAIN matches : MatchCb(a, m)
    \/ \E a \in Admins, act \in {"inc", "dec"}, idx \in {1, 2} : AdjustScore(a, act, idx)
    \/ \E a \in Admins : ConfirmScore(a)
    \/ \E a \in Admins, m \in DOMAIN matches, who \in {1, 2}, sc \in ResScores :
           ConfirmRes(a, m, who, sc)
    \/ CompletionCheck

SpecPair == InitPair /\ [][NextPair]_vars

\* ------------------------------------------- a round under fair admins

\* one tournament and its first simple round, started and confirmed
NextLive ==
    \/ \E a \in Admins, n \in 0..MaxPlayers, tb \in 1..MaxTables : CtPlayers(a, n, tb)
    \/ \E a \in Admins : rounds = <<>> /\ FitsMatches(a) /\ RoundSimple(a)
    \/ \E a \in Admins : StartMatch(a)
    \/ \E a \in Admins, m \in DOMAIN matches : PlayMatch(a, m)
    \/ \E a \in Admins, m \in DOMAIN matches : MatchCb(a, m)
    \/ \E a \in Admins, act \in {"inc", "dec"}, idx \in {1, 2} : AdjustScore(a, act, idx)
    \/ \E a \in Admins : ConfirmScore(a)
    \/ CompletionCheck

\* an admin presses start_match and gets a list
StartOffered == \E a \in Admins : StartMatch(a) /\ listed' # {}

\* an admin presses a play button of the list just shown
PlayOffered == \E a \in Admins, m \in DOMAIN matches : m \in listed /\ PlayMatch(a, m)

\* an admin opens the scoreboard of a playing match from the menu
OpenPlaying ==
    \E a \in Admins, m \in DOMAIN matches : matches[m].status = "playing" /\ MatchCb(a, m)

\* an admin dials a point for side 1
DialPoint == \E a \in Admins : score_mid[a] # 0 /\ AdjustScore(a, "inc", 1)

\* an admin confirms a playing match with a non-tied score
ConfirmPlaying ==
    \E a \in Admins :
        /\ score_mid[a] # 0
        /\ matches[score_mid[a]].status = "playing"
        /\ score_1[a] # score_2[a]
        /\ ConfirmScore(a)

\* the admins keep starting offered matches and confirming playing matches;
\* the second commit of a confirmation follows its first
Fairness ==
    /\ SF_vars(StartOffered)
    /\ SF_vars(PlayOffered)
    /\ SF_vars(OpenPlaying)
    /\ SF_vars(DialPoint)
    /\ SF_vars(ConfirmPlaying)
    /\ WF_vars(CompletionCheck)

SpecLive == Init /\ [][NextLive]_vars /\ Fairness

\* ================================================================ claims

Rank(st) == CASE st = "scheduled" -> 0 [] st = "playing" -> 1 [] st = "done" -> 2

RoundsOf(t, R) == {r \in DOMAIN R : R[r].tid = t}

\* C1: a confirmation of a match that is already done changes neither the
\* matches (status, result) nor any player's score.  A step that takes the
\* session's score_mid from m to absent is a confirm_score on m.
C1_ReconfirmRejected ==
    [][\A a \in Admins :
          (/\ score_mid[a] \in DOMAIN matches
           /\ score_mid'[a] = 0
           /\ matches[score_mid[a]].status = "done")
          => (matches' = matches /\ players' = players)]_vars

\* C2: the status of a match never moves backward along
\* scheduled -> playing -> done.
C2_StatusForward ==
    [][\A m \in DOMAIN matches :
          Rank(matches'[m].status) >= Rank(matches[m].status)]_vars

\* C3: no player takes part in two playing matches of the same round.
C3_NoPlayerInTwoPlaying ==
    \A m1, m2 \in DOMAIN matches :
        (/\ m1 # m2
         /\ matches[m1].rid = matches[m2].rid
         /\ matches[m1].status = "playing"
         /\ matches[m2].status = "playing")
        => {matches[m1].p1, matches[m1].p2} \cap {matches[m2].p1, matches[m2].p2} = {}

\* C4: a tournament has at most one pending round.
C4_AtMostOnePending ==
    \A t \in DOMAIN tours : Cardinality(PendingRounds(t, rounds)) <= 1

\* C5: a score changes only in a step in which a match of a simple round
\* becomes done, by +2 for its winner and +1 for its loser, so once per match.
C5_PointsOncePerMatch ==
    [][\A p \in DOMAIN players :
          players'[p].score # players[p].score
          => \E m \in DOMAIN matches :
                /\ matches[m].status # "done"
                /\ matches'[m].status = "done"
                /\ rounds[matches[m].rid].type = "simple"
                /\ \/ /\ matches'[m].result.winner = p
                      /\ players'[p].score = players[p].score + WinPoints
                   \/ /\ matches'[m].result.loser = p
                      /\ players'[p].score = players[p].score + LosePoints]_vars

\* C6: in every committed state a round is done if and only if all its
\* matches are done.
C6_RoundDoneIffMatchesDone ==
    \A r \in DOMAIN rounds :
        rounds[r].status = "done"
        <=> \A m \in MatchesOf(r, matches) : matches[m].status = "done"

\* C7: an ended tournament stays ended and gets no further round.
C7_EndedIsTerminal ==
    [][\A t \in DOMAIN tours :
          tours[t].status = "ended"
          => /\ tours'[t].status = "ended"
             /\ RoundsOf(t, rounds') = RoundsOf(t, rounds)]_vars

\* C8: a final round exists only in a tournament of exactly 8 players (the
\* players of a tournament never change, so a final round of a tournament
\* with another count was created by a CreateFinalRound that had to fail).
C8_FinalOnlyWithEight ==
    \A r \in DOMAIN rounds :
        rounds[r].type = "final" => Len(PlayersOf(rounds[r].tid, players)) = 8

\* C9: round_final on a tournament without a completed simple round answers
\* with the error and changes no tournament, player, round or match.
C9_NoSimpleDoneRejected ==
    [][\A a \in Admins :
          (RoundFinal(a) /\ SimpleDone(tid[a], rounds) = {})
          => (reply' = "need_simple" /\ UNCHANGED db)]_vars

\* the error has been answered while a simple round is still pending
C9_Witness ==
    /\ reply = "need_simple"
    /\ \E r \in DOMAIN rounds : rounds[r].type = "simple" /\ rounds[r].status = "pending"
    /\ \A t \in DOMAIN tours : SimpleDone(t, rounds) = {}

\* X lists four different players of tbl, by descending score, and no other
\* player of tbl has a higher score than the last of them
TopFour(X, tbl, P) ==
    /\ Cardinality(Range(X)) = 4
    /\ Range(X) \subseteq Range(tbl)
    /\ \A i \in 1..3 : P[X[i]].score >= P[X[i + 1]].score
    /\ \A q \in Range(tbl) \ Range(X) : P[q].score <= P[X[4]].score

\* C10: the step that stores a final round stores exactly four matches, all
\* scheduled, pairing A0-B3, B0-A3, A1-B2, B1-A2, where A and B rank the two
\* tables of the latest completed simple round by descending current score.
C10_BracketSeeding ==
    [][(Len(rounds') = Len(rounds) + 1 /\ rounds'[Len(rounds')].type = "final")
       => LET r == Len(rounds')
              s == LatestSimpleDone(rounds'[r].tid, rounds)
              new == SubSeq(matches', Len(matches) + 1, Len(matches'))
          IN  /\ s # 0
              /\ Len(new) = 4
              /\ \A k \in 1..4 : new[k].status = "scheduled" /\ new[k].rid = r
              /\ TopFour(<<new[1].p1, new[3].p1, new[4].p2, new[2].p2>>,
                         rounds[s].data[1], players)
              /\ TopFour(<<new[2].p1, new[4].p1, new[3].p2, new[1].p2>>,
                         rounds[s].data[2], players)]_vars

\* a final round of an eight-player tournament with its four scheduled matches
C10_Witness ==
    \E r \in DOMAIN rounds :
        /\ rounds[r].type = "final"
        /\ Len(PlayersOf(rounds[r].tid, players)) = 8
        /\ Cardinality(WithStatus(r, matches, "scheduled")) = 4

\* ---- simple rounds: seating and pairing

\* the step stores a new round of type simple
StoresSimple == Len(rounds') = Len(rounds) + 1 /\ rounds'[Len(rounds')].type = "simple"

\* the matches the step adds to the store
Added == SubSeq(matches', Len(matches) + 1, Len(matches'))

\* C11: the tables recorded by a new simple round are a partition of the
\* tournament's players (each player in exactly one table, at one position)
\* and their number is even.
C11_TablesPartition ==
    [][StoresSimple
       => LET r == Len(rounds')
              tables == rounds'[r].data
              ps == Range(PlayersOf(rounds'[r].tid, players))
          IN  /\ Len(tables) % 2 = 0
              /\ UNION {Range(tables[i]) : i \in DOMAIN tables} = ps
              /\ \A p \in ps :
                    Cardinality({<<i, k>> \in (DOMAIN tables) \X (1..Cardinality(ps)) :
                                    k \in DOMAIN tables[i] /\ tables[i][k] = p}) = 1]_vars

\* a simple round of a tournament of more than eight players is stored and
\* its tables differ in size
C11_Witness ==
    \E r \in DOMAIN rounds :
        /\ rounds[r].type = "simple"
        /\ Len(PlayersOf(rounds[r].tid, players)) > 8
        /\ Len(rounds[r].data[1]) # Len(rounds[r].data[Len(rounds[r].data)])

\* the table counts the scan of round_simple tries for n players and accepts
Fitting(n) ==
    {t \in 2..((n \div 4) + 2) :
        /\ t % 2 = 0
        /\ \E size \in MinSize..MaxSize : (size - 1) * t < n /\ n <= size * t}

\* C12: when some even t <= N/4 + 2 has ceil(N/t) in [4,7], a new simple
\* round has the smallest such t as its number of tables; 8 players get two
\* tables of 4 and 16 players four tables of 4.
C12_SmallestFittingCount ==
    [][StoresSimple
       => LET r == Len(rounds')
              tables == rounds'[r].data
              n == Len(PlayersOf(rounds'[r].tid, players))
          IN  /\ Fitting(n) # {}
                 => Len(tables) \in Fitting(n) /\ \A t \in Fitting(n) : Len(tables) <= t
              /\ n = 8 => Len(tables) = 2 /\ \A i \in 1..2 : Len(tables[i]) = 4
              /\ n = 16 => Len(tables) = 4 /\ \A i \in 1..4 : Len(tables[i]) = 4]_vars

\* a sixteen-player tournament has been seated: the scan passed t = 2
C12_Witness ==
    \E r \in DOMAIN rounds :
        /\ rounds[r].type = "simple"
        /\ Len(PlayersOf(rounds[r].tid, players)) = 16
        /\ Len(rounds[r].data) = 4

\* C13: a new simple round adds, for each table of size k, exactly k(k-1)/2
\* matches, one for every unordered pair of different players of the table;
\* each is scheduled and carries the table's 1-based number, none pairs a
\* player with themselves or players of different tables.
C13_RoundRobinPairs ==
    [][StoresSimple
       => LET r == Len(rounds')
              tables == rounds'[r].data
              new == Added
              at(i) == {k \in DOMAIN new : new[k].table = i}
          IN  /\ \A k \in DOMAIN new :
                    /\ new[k].rid = r
                    /\ new[k].status = "scheduled"
                    /\ new[k].table \in DOMAIN tables
                    /\ new[k].p1 # new[k].p2
                    /\ {new[k].p1, new[k].p2} \subseteq Range(tables[new[k].table])
              /\ \A i \in DOMAIN tables :
                    /\ 2 * Cardinality(at(i)) = Len(tables[i]) * (Len(tables[i]) - 1)
                    /\ \A p, q \in Range(tables[i]) :
                          p # q => Cardinality({k \in at(i) :
                                       {new[k].p1, new[k].p2} = {p, q}}) = 1]_vars

\* the round robin of a table of seven players is stored
C13_Witness ==
    \E r \in DOMAIN rounds :
        /\ rounds[r].type = "simple"
        /\ Len(rounds[r].data[1]) = 7
        /\ Cardinality({m \in MatchesOf(r, matches) : matches[m].table = 1}) = 21


\* ---- the life of a match

C15_ResultWrittenOnce ==
    [][\A m \in DOMAIN matches :
          matches[m].status = "done" => matches'[m].result = matches[m].result]_vars

\* C16: a match becomes playing only from scheduled.
C16_StartOnlyScheduled ==
    [][\A m \in DOMAIN matches :
          (matches'[m].status = "playing" /\ matches[m].status # "playing")
          => matches[m].status = "scheduled"]_vars

C18_PlayingWithinTables ==
    \A r \in DOMAIN rounds :
        Cardinality(WithStatus(r, matches, "playing")) <= tours[rounds[r].tid].tables

\* C19: a simple round is stored only for a tournament without a pending
\* round; otherwise round_simple adds no round and no match.
C19_NoSimpleWhilePending ==
    [][\A a \in Admins :
          (RoundSimple(a) /\ PendingRounds(tid[a], rounds) # {})
          => (rounds' = rounds /\ matches' = matches)]_vars


\* C20: a step that writes the result of a match of a final round leaves
\* every player's score as it was.
C20_FinalAwardsNothing ==
    [][\A m \in DOMAIN matches :
          (/\ rounds[matches[m].rid].type = "final"
           /\ matches'[m].status = "done"
           /\ matches'[m] # matches[m])
          => players' = players]_vars

\* a knockout match has just been confirmed
C20_Witness ==
    /\ pc.op = "check"
    /\ rounds[pc.rid].type = "final"
    /\ \E m \in MatchesOf(pc.rid, matches) :
          matches[m].status = "done" /\ matches[m].result.winner # 0


\* ---- confirmations and scores

\* C21: of several confirmations of one playing match only one takes effect:
\* a confirmation that writes to the store (it leaves the completion check
\* pending) takes a match of that round from playing to done.
C21_OneConfirmationTakesEffect ==
    [][(pc = Idle /\ pc' # Idle)
       => \E m \in MatchesOf(pc'.rid, matches) :
             matches[m].status = "playing" /\ matches'[m].status = "done"]_vars

\* C23: a player's score starts at 0, is never negative and never decreases.
C23_ScoreMonotone ==
    [][\A p \in DOMAIN players' :
          IF p \in DOMAIN players
          THEN players'[p].score >= players[p].score /\ players[p].score >= 0
          ELSE players'[p].score = 0]_vars

\* a player has won a match and lost a match
C23_Witness ==
    \E p \in DOMAIN players :
        /\ players[p].score >= WinPoints + LosePoints
        /\ \E m \in DOMAIN matches : matches[m].result.winner = p
        /\ \E m \in DOMAIN matches : matches[m].result.loser = p

\* C24: the completion of a round fires once: a completion check on a round
\* that is already done changes no round and sends no summary.
C24_CompletionOnce ==
    [][(pc # Idle /\ pc' = Idle /\ rounds[pc.rid].status = "done")
       => (rounds' = rounds /\ reply' # "summary")]_vars

\* C28: a confirm_score with s1 # s2 records as winner player 1 when s1 > s2
\* and player 2 otherwise, as loser the other player of the match, and sets
\* the match done.
C28_WinnerIsHigherSide ==
    [][\A a \in Admins :
          (/\ score_mid[a] \in DOMAIN matches
           /\ score_mid'[a] = 0
           /\ score_1[a] # score_2[a])
          => LET m == score_mid[a]
                 hi == IF score_1[a] > score_2[a] THEN matches[m].p1 ELSE matches[m].p2
             IN  /\ matches'[m].status = "done"
                 /\ matches'[m].result.winner = hi
                 /\ matches'[m].result.loser \in {matches[m].p1, matches[m].p2} \ {hi}
                 /\ matches'[m].p1 = matches[m].p1
                 /\ matches'[m].p2 = matches[m].p2]_vars

\* a confirm_score has just recorded a win of side 2 with 0:1
C28_Witness ==
    /\ pc.op = "check"
    /\ \E m \in MatchesOf(pc.rid, matches) :
          /\ matches[m].status = "done"
          /\ matches[m].result.score = <<0, 1>>
          /\ matches[m].result.winner = matches[m].p2

RECURSIVE ScoreSum(_, _)
ScoreSum(ids, P) == IF ids = <<>> THEN 0 ELSE P[Head(ids)].score + ScoreSum(Tail(ids), P)

\* C30: the scores of a tournament's players add up to 3 times the number
\* of done matches of its simple rounds.
C30_SumIsThreePerDone ==
    \A t \in DOMAIN tours :
        ScoreSum(PlayersOf(t, players), players)
        = (WinPoints + LosePoints)
          * Cardinality({m \in DOMAIN matches :
                           /\ rounds[matches[m].rid].tid = t
                           /\ rounds[matches[m].rid].type = "simple"
                           /\ matches[m].status = "done"})


\* ---- creating rounds

\* C25: a step that stores a round (simple or final) leaves its tournament
\* active, in that same step, and changes nothing else of any tournament.
C25_CreationActivates ==
    [][Len(rounds') = Len(rounds) + 1
       => LET t == rounds'[Len(rounds')].tid
          IN  /\ tours'[t].status = "active"
              /\ tours'[t].tables = tours[t].tables
              /\ \A u \in DOMAIN tours \ {t} : tours'[u] = tours[u]
              /\ tours[t].status = "active" => tours' = tours]_vars

\* a final round has been stored and its tournament is active
C25_Witness ==
    \E r \in DOMAIN rounds :
        /\ rounds[r].type = "final"
        /\ rounds[r].status = "pending"
        /\ tours[rounds[r].tid].status = "active"

\* the even table counts the scan tries for n players
Scanned(n) == {t \in 2..((n \div 4) + 2) : t % 2 = 0}

\* C26: when no scanned table count fits, round_simple still stores the
\* round, with the last scanned count as its number of tables and every
\* player seated.
C26_FallbackLastScanned ==
    [][\A a \in Admins :
          (/\ RoundSimple(a)
           /\ Fitting(Len(PlayersOf(tid[a], players))) = {})
          => LET n == Len(PlayersOf(tid[a], players))
                 tables == rounds'[Len(rounds')].data
             IN  /\ StoresSimple
                 /\ Len(tables) \in Scanned(n)
                 /\ \A t \in Scanned(n) : t <= Len(tables)
                 /\ UNION {Range(tables[i]) : i \in DOMAIN tables}
                       = Range(PlayersOf(tid[a], players))]_vars

\* a round of five players, too few to fill two tables of four, is stored
C26_Witness ==
    \E r \in DOMAIN rounds :
        /\ rounds[r].type = "simple"
        /\ Len(PlayersOf(rounds[r].tid, players)) = 5
        /\ Len(rounds[r].data) = 2
        /\ Len(rounds[r].data[1]) = 3

\* the seats of the tables: table i, position k
Seats(tables) ==
    {<<i, k>> \in (DOMAIN tables) \X (1..MaxSeated) : k \in DOMAIN tables[i]}

\* the 1-based rank that dealing in turn gives to a seat
SeatRank(tables, c) == (c[2] - 1) * Len(tables) + c[1]

\* C27: a new simple round seats the player at rank i (players in
\* descending order of current score) at table i mod t: read in dealing
\* order the seats carry ranks 1..N without gaps and non-increasing scores,
\* and the sizes of two tables differ by at most one.
C27_DealtByRank ==
    [][StoresSimple
       => LET tables == rounds'[Len(rounds')].data
              n == Len(PlayersOf(rounds'[Len(rounds')].tid, players))
          IN  /\ {SeatRank(tables, c) : c \in Seats(tables)} = 1..n
              /\ Cardinality(Seats(tables)) = n
              /\ \A c, d \in Seats(tables) :
                    SeatRank(tables, c) < SeatRank(tables, d)
                    => players[tables[c[1]][c[2]]].score >= players[tables[d[1]][d[2]]].score
              /\ \A i, j \in DOMAIN tables :
                    Len(tables[i]) - Len(tables[j]) <= 1]_vars

\* a second simple round is stored whose first table is led by a player
\* with more points than the leader of the second table
C27_Witness ==
    \E r \in DOMAIN rounds :
        /\ rounds[r].type = "simple"
        /\ rounds[r].status = "pending"
        /\ r > 1
        /\ Len(rounds[r].data[2]) >= 2
        /\ players[rounds[r].data[1][1]].score > players[rounds[r].data[2][1]].score
        /\ players[rounds[r].data[1][1]].score > players[rounds[r].data[1][2]].score


\* ---- the order of confirmations

\* the store <<players, rounds, matches>> after the first commit of a
\* confirmation of m in which side 1 (s = 1) or side 2 wins
FirstCommit(D, m, s) ==
    LET w == IF s = 1 THEN D[3][m].p1 ELSE D[3][m].p2
        l == IF s = 1 THEN D[3][m].p2 ELSE D[3][m].p1
    IN  <<Award(D[1], D[2], D[3], m, w, l),
          D[2],
          SetDone(D[3], m, w, l, IF s = 1 THEN <<1, 0>> ELSE <<0, 1>>)>>

\* the store after the second commit, the completion check of round r
SecondCommit(D, r) == <<D[1], Completed(D[2], D[3], r), D[3]>>

\* a whole confirmation of m
BothCommits(D, m, s) == SecondCommit(FirstCommit(D, m, s), D[3][m].rid)

\* C22: for two different playing matches of one round and any outcomes,
\* confirming one and then the other, in either order, or with the two first
\* commits before the two completion checks, ends in the same players,
\* rounds and matches.
C22_ConfirmationsCommute ==
    \A m1, m2 \in DOMAIN matches : \A s1, s2 \in {1, 2} :
        (/\ m1 # m2
         /\ matches[m1].rid = matches[m2].rid
         /\ matches[m1].status = "playing"
         /\ matches[m2].status = "playing")
        => LET D == <<players, rounds, matches>>
               r == matches[m1].rid
               one == BothCommits(BothCommits(D, m1, s1), m2, s2)
               two == BothCommits(BothCommits(D, m2, s2), m1, s1)
               mix == SecondCommit(SecondCommit(
                          FirstCommit(FirstCommit(D, m1, s1), m2, s2), r), r)
           IN  one = two /\ one = mix

\* two matches of one round that share a player have both been confirmed,
\* or the two matches of a round have been confirmed and the round is done
C22_Witness ==
    /\ pc = Idle
    /\ \E m1, m2 \in DOMAIN matches :
          /\ m1 # m2
          /\ matches[m1].rid = matches[m2].rid
          /\ matches[m1].status = "done"
          /\ matches[m2].status = "done"
          /\ matches[m1].p1 = matches[m2].p1
          /\ matches[m1].result.winner = matches[m1].p1
          /\ matches[m2].result.loser = matches[m2].p1
          /\ players[matches[m1].p1].score = WinPoints + LosePoints

\* C31: a confirmation pressed on a scoreboard the admin has resolves the
\* match of that scoreboard: whichever of the admin's scoreboards carries
\* the pressed confirm button, the only match the confirmation changes is
\* the one whose id the button carries.
C31_ConfirmResolvesButtonMatch ==
    [][\A a \in Admins : \A b \in boards[a] :
          ConfirmScore(a) =>
              \A m \in DOMAIN matches : matches'[m] # matches[m] => m = b]_vars

C36_SelectedSideWins ==
    [][\A a \in Admins : \A m \in DOMAIN matches : \A who \in {1, 2} :
       \A sc \in ResScores :
          (ConfirmRes(a, m, who, sc) /\ matches[m].status = "playing")
          => /\ matches'[m].result.winner =
                    (IF who = 1 THEN matches[m].p1 ELSE matches[m].p2)
             /\ matches'[m].result.loser =
                    (IF who = 1 THEN matches[m].p2 ELSE matches[m].p1)]_vars

\* C34: for every player count N >= 7 the table count of a new simple round
\* gives a table size ceil(N/t) in [4,7]; no scanned count fits only for
\* N < 7, and then the round has 2 tables.  The first part is also computed
\* for every N up to MaxCount.
C34_SearchEndsInBand ==
    [][StoresSimple
       => LET r == Len(rounds')
              t == Len(rounds'[r].data)
              n == Len(PlayersOf(rounds'[r].tid, players))
              size == (n + t - 1) \div t
          IN  /\ n >= 7 => MinSize <= size /\ size <= MaxSize
              /\ Fitting(n) = {} => n < 7 /\ t = 2
              /\ \A k \in 7..MaxCount :
                    LET tk == TableCount(k)
                        sk == (k + tk - 1) \div tk
                    IN  tk \in Fitting(k) /\ MinSize <= sk /\ sk <= MaxSize
              /\ \A k \in 0..6 : Fitting(k) = {} /\ TableCount(k) = 2]_vars

\* 15 players have been seated at four tables, the second count scanned
C34_Witness ==
    \E r \in DOMAIN rounds :
        /\ rounds[r].type = "simple"
        /\ Len(PlayersOf(rounds[r].tid, players)) = 15
        /\ Len(rounds[r].data) = 4
        /\ Len(rounds[r].data[4]) = 3

\* the scheduled matches of round r neither of whose players takes part in a
\* playing match of r
Startable(r) ==
    {m \in DOMAIN matches :
        /\ matches[m].rid = r
        /\ matches[m].status = "scheduled"
        /\ \A k \in DOMAIN matches :
              (matches[k].rid = r /\ matches[k].status = "playing")
              => {matches[m].p1, matches[m].p2} \cap {matches[k].p1, matches[k].p2} = {}}

\* C35: when the admin's tournament has one pending round, start_match
\* lists exactly the scheduled matches of that round neither of whose
\* players is in a playing match of the round; when there is none it lists
\* nothing and answers that no pair is available.
C35_OfferedAreStartable ==
    [][\A a \in Admins :
          (StartMatch(a) /\ Cardinality(PendingRounds(tid[a], rounds)) = 1)
          => LET r == CHOOSE r \in PendingRounds(tid[a], rounds) : TRUE
             IN  /\ listed' = Startable(r)
                 /\ playShown' = playShown \cup Startable(r)
                 /\ Startable(r) = {} <=> reply' = "no_pairs"
                 /\ Startable(r) # {} <=> reply' = "ok"]_vars

\* start_match has listed some scheduled matches of the round and left out
\* others, whose players are playing
C35_Witness ==
    /\ reply = "ok"
    /\ listed # {}
    /\ \E r \in DOMAIN rounds :
          /\ rounds[r].status = "pending"
          /\ listed \subseteq WithStatus(r, matches, "scheduled")
          /\ WithStatus(r, matches, "scheduled") \ listed # {}
          /\ WithStatus(r, matches, "playing") # {}

\* C33: under admins who keep starting offered matches and confirming
\* playing matches with non-tied scores, every simple round that is created
\* is eventually done; and a pending simple round with an unfinished match
\* always has a playing match or a scheduled match that start_match offers.
C33_SimpleRoundsComplete ==
    /\ \A r \in 1..MaxRounds :
          (r \in DOMAIN rounds /\ rounds[r].type = "simple")
          ~> (r \in DOMAIN rounds /\ rounds[r].status = "done")
    /\ [](\A r \in DOMAIN rounds :
             (/\ rounds[r].type = "simple"
              /\ rounds[r].status = "pending"
              /\ MatchesOf(r, matches) # WithStatus(r, matches, "done"))
             => WithStatus(r, matches, "playing") # {} \/ Available(r, matches) # {})

====
